---- MODULE Spec2Model ----
(***************************************************************************)
(* The probe side of the vectorized hash join: velox/exec/HashProbe.cpp.   *)
(*                                                                         *)
(* One HashProbe operator per driver.  All drivers share one build table   *)
(* (read-only apart from the per-row probed flags) and, for right, full    *)
(* and right-semi joins, the peer barrier that elects the last probe.      *)
(*                                                                         *)
(* Row numbers of an input batch are 0-based as in the source; build rows  *)
(* are addressed by their position 1..Len(build) in the row container and  *)
(* 0 stands for the null row pointer.                                      *)
(***************************************************************************)
EXTENDS Integers, Sequences, FiniteSets, TLC

\* ------------------------------------------------------------------ bounds
MaxBuildRows == 2
MaxBatchRows == 3
MaxOutputBatchSize == 2
MaxBatches == 2
NumDrivers == 2

\* --------------------------------------------------------------- constants
\* SQL NULL of a key or value column.
NULL == -1
\* The null build-row pointer.
nullptr == 0
\* "No current row" of NoMatchDetector and LeftSemiJoinTracker.
NoRow == -1

\* input_ == nullptr, and the nullptr that getOutput returns: a batch is
\* never empty, so the empty sequence stands for "no batch".
NoBatch == <<>>

JoinTypes ==
  {"inner", "left", "right", "full", "leftSemi", "rightSemi", "nullAwareAnti"}

isInnerJoin(jt) == jt = "inner"
isLeftJoin(jt) == jt = "left"
isRightJoin(jt) == jt = "right"
isFullJoin(jt) == jt = "full"
isLeftSemiJoin(jt) == jt = "leftSemi"
isRightSemiJoin(jt) == jt = "rightSemi"
isNullAwareAntiJoin(jt) == jt = "nullAwareAnti"

\* ------------------------------------------------------------------- data
\* A build row and a probe row: one key column k, one payload column v.
BuildRowSet ==
  { [k |-> 1, v |-> 0], [k |-> 1, v |-> 1],
    [k |-> 2, v |-> NULL], [k |-> NULL, v |-> 1] }

ProbeRowSet ==
  { [k |-> 1, v |-> 0], [k |-> 1, v |-> 1], [k |-> 2, v |-> 0],
    [k |-> NULL, v |-> 0], [k |-> 1, v |-> NULL] }

SeqsUpTo(S, n) == UNION { [1..m -> S] : m \in 0..n }

Builds == SeqsUpTo(BuildRowSet, MaxBuildRows)

\* addInput accepts one non-empty batch.
BatchesOf(rowSet) == SeqsUpTo(rowSet, MaxBatchRows) \ { <<>> }

\* The residual filters: none, p.v < b.v, p.v = 0.  Both expressions
\* propagate nulls; the second reads no build column.
FilterKinds == {"none", "lt", "pv"}

HashModes == {"kHash", "kArray"}

\* Row r (0-based) of a batch.
RowAt(batch, r) == batch[r + 1]

\* A zero-based array of length n filled with x.
ArrayOf(n, x) == [i \in 0..(n - 1) |-> x]

Min(a, b) == IF a < b THEN a ELSE b

\* ------------------------------------------------- the filter expression
\* The payload of the build row a pointer addresses; extractColumn yields
\* NULL for a null row pointer.
BuildVal(tbl, ptr) == IF ptr = nullptr THEN NULL ELSE tbl[ptr].v

propagatesNulls(f) == f \in {"lt", "pv"}

\* decodedFilterResult_.isNullAt
FilterIsNull(f, pv, bv) ==
  CASE f = "lt" -> pv = NULL \/ bv = NULL
    [] f = "pv" -> pv = NULL
    [] OTHER -> FALSE

\* !isNullAt && valueAt<bool>
FilterPassed(f, pv, bv) ==
  /\ ~FilterIsNull(f, pv, bv)
  /\ CASE f = "lt" -> pv < bv
       [] f = "pv" -> pv = 0
       [] OTHER -> TRUE

\* ------------------------------------------- the build table (JoinTable)
numDistinct(tbl) == Len(tbl)

hasDuplicateKeys(tbl) ==
  \E i, j \in 1..Len(tbl) : i < j /\ tbl[i].k # NULL /\ tbl[i].k = tbl[j].k

\* Rows with a null key are kept in the row container but are in no chain.
ChainOf(tbl, key) == { p \in 1..Len(tbl) : key # NULL /\ tbl[p].k = key }

SetMin(S) == CHOOSE x \in S : \A y \in S : x <= y

\* Head of the chain of build rows with this key, or the null pointer.
ChainHead(tbl, key) ==
  IF ChainOf(tbl, key) = {} THEN nullptr ELSE SetMin(ChainOf(tbl, key))

\* The next build row of the same chain, or the null pointer.
nextRow(tbl, ptr) ==
  LET later == { p \in ChainOf(tbl, tbl[ptr].k) : p > ptr }
  IN IF later = {} THEN nullptr ELSE SetMin(later)

\* probe(lookup): hits[rows[i]] is the chain head or null; other entries of
\* hits are left as they were.
joinProbe(tbl, batch, rows, hits) ==
  [r \in DOMAIN hits |->
      IF \E i \in 1..Len(rows) : rows[i] = r
      THEN ChainHead(tbl, RowAt(batch, r).k)
      ELSE hits[r]]

\* JoinResultIterator::atEnd
atEnd(results, lookup) ==
  \/ ~results.valid
  \/ results.lastRowIndex = Len(lookup.rows)

\* listResults(cursor, cap, mapping, hits) -> n.  st carries the cursor and
\* the two output arrays; st.numOut is the number of pairs written.
RECURSIVE listJoinResults(_, _, _, _, _)
listJoinResults(tbl, lookup, includeMisses, maxOut, st) ==
  IF st.lastRowIndex >= Len(lookup.rows) \/ st.numOut >= maxOut
  THEN st
  ELSE
    LET row == lookup.rows[st.lastRowIndex + 1]
        hit == IF st.nextHit # nullptr THEN st.nextHit ELSE lookup.hits[row]
    IN
      IF hit = nullptr
      THEN
        IF includeMisses
        THEN listJoinResults(tbl, lookup, includeMisses, maxOut,
               [st EXCEPT !.lastRowIndex = @ + 1,
                          !.numOut = @ + 1,
                          !.mapping[st.numOut] = row,
                          !.outputRows[st.numOut] = nullptr])
        ELSE listJoinResults(tbl, lookup, includeMisses, maxOut,
               [st EXCEPT !.lastRowIndex = @ + 1])
      ELSE
        LET next == nextRow(tbl, hit)
        IN listJoinResults(tbl, lookup, includeMisses, maxOut,
             [st EXCEPT !.nextHit = next,
                        !.lastRowIndex = IF next = nullptr THEN @ + 1 ELSE @,
                        !.numOut = @ + 1,
                        !.mapping[st.numOut] = row,
                        !.outputRows[st.numOut] = hit])

\* listProbedRows / listNotProbedRows: walk the row container from the
\* iterator position, collecting up to cap rows whose probed flag is `want`.
RECURSIVE listRowsByProbedFlag(_, _, _, _, _, _)
listRowsByProbedFlag(tbl, flags, want, cap, iter, acc) ==
  IF iter >= Len(tbl) \/ Len(acc) >= cap
  THEN [iter |-> iter, rows |-> acc]
  ELSE listRowsByProbedFlag(tbl, flags, want, cap, iter + 1,
         IF ((iter + 1) \in flags) = want THEN Append(acc, iter + 1) ELSE acc)

listProbedRows(tbl, flags, cap, iter) ==
  listRowsByProbedFlag(tbl, flags, TRUE, cap, iter, <<>>)

listNotProbedRows(tbl, flags, cap, iter) ==
  listRowsByProbedFlag(tbl, flags, FALSE, cap, iter, <<>>)

\* RowContainer::setProbedFlag: null row pointers are skipped.
setProbedFlag(flags, ptrs) == flags \cup (ptrs \ {nullptr})

\* ------------------------------------------------------------------ state
VARIABLES
  joinType,          \* joinType_
  filter,            \* filter_: "none" when the join node has no filter
  outputBatchSize_,  \* preferredOutputBatchSize
  build,             \* the row container of the build table (table_->rows())
  hashMode,          \* table_->hashMode()
  pushdown,          \* the upstream accepts a dynamic filter on the key
  tableResultProjections_,  \* the output has a column of the build side
  keyChannels_,      \* the number of join keys: a second key, when there
                     \* is one, is a column equal on every row of both sides
  drivers,           \* the drivers of the probe pipeline
  probeRows,         \* the rows the upstream of the probe can deliver
  batchRows,         \* per driver: the largest batch its upstream delivers
  buildReady,        \* the join bridge holds the build result
  upstream,          \* per driver: batches its upstream can still deliver
  pushed,            \* per driver: its upstream holds the dynamic filter
  op,                \* per driver: the fields of its HashProbe operator
  probed,            \* the probed flags of the build rows (shared)
  peersFinished,     \* Task::allPeersFinished: drivers that have arrived
  lastInput,         \* per driver: the batch of its latest addInput
  emitted,           \* per driver: rows output since its latest addInput
  output,            \* per driver: what its latest getOutput returned
  drain,             \* per driver: build rows it has output after noMoreInput
  paired,            \* build rows output with a probe row, by any driver
  matched,           \* right, full and right semi joins: the build rows
                     \* some probe row of some input batch matches
  drainStarted,      \* some driver has called getBuildSideOutput
  overflow,          \* per driver: an entry past the end of outputRows_
                     \* and of the row mapping has been written
  hung,              \* per driver: getOutput does not return
  buffers,           \* per driver: output_, rowNumberMapping_ and who
                     \* else holds them (see InitBuffers)
  ahead              \* per driver: evalFilter has written an entry of
                     \* outputRows_ that it had yet to read

config ==
  <<joinType, filter, outputBatchSize_, build, hashMode, pushdown,
    tableResultProjections_, keyChannels_, drivers, probeRows, batchRows>>

ghost ==
  <<lastInput, emitted, output, drain, paired, matched, drainStarted,
    overflow, hung, ahead>>

vars ==
  <<joinType, filter, outputBatchSize_, build, hashMode, pushdown,
    tableResultProjections_, keyChannels_, drivers, probeRows, batchRows,
    buildReady,
    upstream, pushed,
    op, probed, peersFinished, lastInput, emitted, output, drain, paired,
    matched, drainStarted, overflow, hung, buffers, ahead>>

AllDrivers == 1..NumDrivers

\* The operator as the constructor leaves it.
InitOp ==
  [ table_ |-> FALSE,
    finished_ |-> FALSE,
    noMoreInput_ |-> FALSE,
    lastProbe_ |-> FALSE,
    input_ |-> NoBatch,
    dynamicFilters_ |-> FALSE,
    canReplaceWithDynamicFilter_ |-> FALSE,
    replacedWithDynamicFilter_ |-> FALSE,
    nonNullRows_ |-> <<>>,
    activeRows_ |-> <<>>,
    lookup_ |-> [rows |-> <<>>, hits |-> <<>>],
    results_ |-> [valid |-> FALSE, lastRowIndex |-> 0, nextHit |-> nullptr],
    noMatchDetector_ |-> [currentRow |-> NoRow, currentRowPassed |-> FALSE],
    leftSemiJoinTracker_ |-> [currentRow |-> NoRow],
    lastProbeIterator_ |-> 0 ]

\* No buffer.
NoBuffer == -1

(***************************************************************************)
(* The vectors and buffers getOutput hands out and may use again:          *)
(*   output_            output_ is not null;                               *)
(*   outputShared       the consumer holds the row vector output_ points   *)
(*                      at;                                                *)
(*   probeChildren      the probe-side children of that row vector: null,  *)
(*                      dictionaries over the buffer rowNumberMapping_     *)
(*                      points at ("wraps"), or something else ("other");  *)
(*   buildChildShared   the consumer holds a build-side child of it;       *)
(*   rowNumberMapping_  the capacity of the buffer, in entries;            *)
(*   columnShared       the consumer holds, apart from output_, a          *)
(*                      dictionary over that buffer;                       *)
(*   filterWraps        the probe columns of filterInput_ are dictionaries *)
(*                      over that buffer;                                  *)
(*   clobbered          a vector or buffer was written while the consumer  *)
(*                      held it;                                           *)
(*   reallocated, reused  the consumer's hold made getOutput allocate      *)
(*                      anew; getOutput used a vector or buffer again.     *)
(***************************************************************************)
InitBuffers ==
  [ output_ |-> FALSE,
    outputShared |-> FALSE,
    probeChildren |-> "null",
    buildChildShared |-> FALSE,
    rowNumberMapping_ |-> NoBuffer,
    columnShared |-> FALSE,
    filterWraps |-> FALSE,
    clobbered |-> FALSE,
    reallocated |-> FALSE,
    reused |-> FALSE ]

\* The part of Init every workload shares.
InitCommon ==
  /\ outputBatchSize_ \in 1..MaxOutputBatchSize
  /\ buildReady = FALSE
  /\ pushed = [d \in drivers |-> FALSE]
  /\ op = [d \in drivers |-> InitOp]
  /\ probed = {}
  /\ peersFinished = 0
  /\ lastInput = [d \in drivers |-> NoBatch]
  /\ emitted = [d \in drivers |-> <<>>]
  /\ output = [d \in drivers |-> NoBatch]
  /\ drain = [d \in drivers |-> <<>>]
  /\ paired = {}
  /\ matched = {}
  /\ drainStarted = FALSE
  /\ overflow = [d \in drivers |-> FALSE]
  /\ hung = [d \in drivers |-> FALSE]
  /\ buffers = [d \in drivers |-> InitBuffers]
  /\ ahead = [d \in drivers |-> FALSE]

\* HashBuild reports antiJoinHasNullKeys for a null-aware anti join without
\* filter whose build side has a null key.
antiJoinHasNullKeys ==
  /\ isNullAwareAntiJoin(joinType)
  /\ filter = "none"
  /\ \E p \in 1..Len(build) : build[p].k = NULL

\* ------------------------------------------------------- the join bridge
\* HashBuild hands the table to the bridge; tableOrFuture then has a value.
BuildFinishes ==
  /\ ~buildReady
  /\ buildReady' = TRUE
  /\ UNCHANGED <<config, upstream, pushed, op, probed, peersFinished, ghost,
                 buffers>>

\* -------------------------------------------------------------- isBlocked
\* An isBlocked that takes the table whatever the build reports.
isBlockedOpTakesTable(o) ==
  IF o.table_ \/ ~buildReady THEN o ELSE [o EXCEPT !.table_ = TRUE]

\* An isBlocked that keeps the operator running over an empty build.
isBlockedOpKeepsRunning(o) ==
  IF o.table_ \/ ~buildReady
  THEN o
  ELSE IF antiJoinHasNullKeys
  THEN [o EXCEPT !.finished_ = TRUE]
  ELSE
    [o EXCEPT
       !.table_ = TRUE,
       !.dynamicFilters_ =
          /\ numDistinct(build) # 0
          /\ (isInnerJoin(joinType) \/ isLeftSemiJoin(joinType) \/
              isRightSemiJoin(joinType))
          /\ hashMode # "kHash"
          /\ pushdown]

isBlockedOp(o) ==
  IF o.table_ \/ ~buildReady
  THEN o
  ELSE IF antiJoinHasNullKeys
  THEN [o EXCEPT !.finished_ = TRUE]
  ELSE
    [o EXCEPT
       !.table_ = TRUE,
       !.finished_ =
          IF /\ numDistinct(build) = 0
             /\ (isInnerJoin(joinType) \/ isLeftSemiJoin(joinType) \/
                 isRightJoin(joinType) \/ isRightSemiJoin(joinType))
          THEN TRUE ELSE @,
       !.dynamicFilters_ =
          /\ numDistinct(build) # 0
          /\ (isInnerJoin(joinType) \/ isLeftSemiJoin(joinType) \/
              isRightSemiJoin(joinType))
          /\ hashMode # "kHash"
          /\ pushdown]

IsBlocked(d) ==
  /\ ~hung[d]
  /\ op' = [op EXCEPT ![d] = isBlockedOp(op[d])]
  /\ UNCHANGED <<config, buildReady, upstream, pushed, probed, peersFinished,
                 ghost, buffers>>

\* ---------------------------------------------------- clearDynamicFilters
\* A clearDynamicFilters that does not look at the build-side projections.
clearDynamicFiltersOpAnyProjection(o) ==
  [o EXCEPT
     !.canReplaceWithDynamicFilter_ =
        IF /\ keyChannels_ = 1
           /\ ~hasDuplicateKeys(build)
           /\ filter = "none"
           /\ o.dynamicFilters_
        THEN TRUE ELSE @,
     !.dynamicFilters_ = FALSE]

\* Lines 250-261.
clearDynamicFiltersOp(o) ==
  [o EXCEPT
     !.canReplaceWithDynamicFilter_ =
        IF /\ keyChannels_ = 1
           /\ ~hasDuplicateKeys(build)
           /\ ~tableResultProjections_
           /\ filter = "none"
           /\ o.dynamicFilters_
        THEN TRUE ELSE @,
     !.dynamicFilters_ = FALSE]

\* The driver hands the operator's dynamic filters to the upstream scan and
\* then has the operator clear them.
ClearDynamicFilters(d) ==
  /\ ~hung[d]
  /\ op[d].dynamicFilters_
  /\ op' = [op EXCEPT ![d] = clearDynamicFiltersOp(op[d])]
  /\ pushed' = [pushed EXCEPT ![d] = TRUE]
  /\ UNCHANGED <<config, buildReady, upstream, probed, peersFinished, ghost,
                 buffers>>

\* isBlocked has returned kNotBlocked: the driver may run the operator.
notBlocked(o) == o.table_ \/ o.finished_

\* needsInput(): the driver offers input or end of input only then.
needsInput(o) ==
  /\ o.table_
  /\ ~o.finished_
  /\ ~o.noMoreInput_
  /\ o.input_ = NoBatch

\* --------------------------------------------------------------- addInput
\* deselectRowsWithNulls over the decoded key column.
nonNullRowsOf(batch) == [r \in 0..(Len(batch) - 1) |-> RowAt(batch, r).k # NULL]

\* lookupValueIds deselects the rows whose key has no value id in the
\* build table; hash() deselects nothing.
activeRowsOf(batch, nonNull) ==
  [r \in 0..(Len(batch) - 1) |->
     /\ nonNull[r]
     /\ (hashMode # "kHash" => ChainOf(build, RowAt(batch, r).k) # {})]

\* The selected row numbers in ascending order.
RECURSIVE SelectedRows(_, _)
SelectedRows(sel, n) ==
  IF n = 0 THEN <<>>
  ELSE IF sel[n - 1] THEN Append(SelectedRows(sel, n - 1), n - 1)
       ELSE SelectedRows(sel, n - 1)

Iota(n) == [i \in 1..n |-> i - 1]

\* An entry of hits that resize created and nothing has written.
UninitHit == -2

\* Lines 266-277: the VELOX_CHECK of an addInput that is not replaced by
\* the dynamic filter and finds the build side empty.
emptyBuildCheck(o) ==
  (~o.canReplaceWithDynamicFilter_ /\ numDistinct(build) = 0) =>
    (isNullAwareAntiJoin(joinType) \/ isLeftJoin(joinType) \/
     isFullJoin(joinType))

\* An addInput that sizes hits by the number of rows to probe.
addInputOpHitsPerRow(o, batch) ==
  LET held == [o EXCEPT !.input_ = batch]
      numInput == Len(batch)
      nonNull == nonNullRowsOf(batch)
      active == activeRowsOf(batch, nonNull)
      rows == SelectedRows(active, numInput)
      decoded == [held EXCEPT !.nonNullRows_ = nonNull, !.activeRows_ = active]
      reset == [valid |-> TRUE, lastRowIndex |-> 0, nextHit |-> nullptr]
  IN
    IF o.canReplaceWithDynamicFilter_
    THEN [held EXCEPT !.replacedWithDynamicFilter_ = TRUE]
    ELSE IF numDistinct(build) = 0
    THEN held
    ELSE IF isLeftJoin(joinType) \/ isFullJoin(joinType) \/
            isNullAwareAntiJoin(joinType)
    THEN
      [decoded EXCEPT
         !.lookup_ =
            [rows |-> Iota(numInput),
             hits |-> joinProbe(build, batch, rows, ArrayOf(numInput, nullptr))],
         !.results_ = reset]
    ELSE IF rows = <<>>
    THEN [decoded EXCEPT !.input_ = NoBatch,
                         !.lookup_ = [rows |-> <<>>, hits |-> o.lookup_.hits]]
    ELSE
      [decoded EXCEPT
         !.lookup_ =
            [rows |-> rows,
             hits |-> joinProbe(build, batch, rows,
                        ArrayOf(Len(rows), UninitHit))],
         !.results_ = reset]

addInputOp(o, batch) ==
  LET held == [o EXCEPT !.input_ = batch]
      numInput == Len(batch)
      nonNull == nonNullRowsOf(batch)
      active == activeRowsOf(batch, nonNull)
      rows == SelectedRows(active, numInput)
      decoded == [held EXCEPT !.nonNullRows_ = nonNull, !.activeRows_ = active]
      reset == [valid |-> TRUE, lastRowIndex |-> 0, nextHit |-> nullptr]
  IN
    IF o.canReplaceWithDynamicFilter_
    THEN [held EXCEPT !.replacedWithDynamicFilter_ = TRUE]
    ELSE IF numDistinct(build) = 0
    THEN held
    ELSE IF isLeftJoin(joinType) \/ isFullJoin(joinType) \/
            isNullAwareAntiJoin(joinType)
    THEN
      [decoded EXCEPT
         !.lookup_ =
            [rows |-> Iota(numInput),
             hits |-> joinProbe(build, batch, rows, ArrayOf(numInput, nullptr))],
         !.results_ = reset]
    ELSE IF rows = <<>>
    THEN [decoded EXCEPT !.input_ = NoBatch,
                         !.lookup_ = [rows |-> <<>>, hits |-> o.lookup_.hits]]
    ELSE
      [decoded EXCEPT
         !.lookup_ =
            [rows |-> rows,
             hits |-> joinProbe(build, batch, rows,
                        ArrayOf(rows[Len(rows)] + 1, UninitHit))],
         !.results_ = reset]

\* The dynamic filter on the key column: the key values of the build side,
\* nulls not allowed.
passesDynamicFilter(row) == ChainOf(build, row.k) # {}

\* The build rows a probe row matches: equal non-null keys, filter true.
matchesOf(row) ==
  { p \in ChainOf(build, row.k) :
      filter = "none" \/ FilterPassed(filter, row.v, build[p].v) }

AddInput(d, batch) ==
  /\ ~hung[d]
  /\ needsInput(op[d])
  /\ upstream[d] > 0
  /\ Len(batch) <= batchRows[d]
  /\ pushed[d] => \A r \in 0..(Len(batch) - 1) : passesDynamicFilter(RowAt(batch, r))
  /\ upstream' = [upstream EXCEPT ![d] = @ - 1]
  /\ op' = [op EXCEPT ![d] = addInputOp(op[d], batch)]
  /\ lastInput' = [lastInput EXCEPT ![d] = batch]
  /\ emitted' = [emitted EXCEPT ![d] = <<>>]
  /\ matched' =
       IF isRightJoin(joinType) \/ isFullJoin(joinType) \/
          isRightSemiJoin(joinType)
       THEN matched \cup
              UNION { matchesOf(RowAt(batch, r)) : r \in 0..(Len(batch) - 1) }
       ELSE matched
  /\ UNCHANGED <<config, buildReady, pushed, probed, peersFinished,
                 output, drain, paired, drainStarted, overflow, hung,
                 buffers, ahead>>

\* ------------------------------------------------------------ noMoreInput
\* Task::allPeersFinished: true for the last driver to arrive.
allPeersFinished(arrived) == arrived + 1 = Cardinality(drivers)

\* A noMoreInput that does not ask whether the peers have finished.
noMoreInputOpAlwaysLast(o, arrived) ==
  [o EXCEPT !.noMoreInput_ = TRUE, !.lastProbe_ = TRUE]

noMoreInputOp(o, arrived) ==
  [o EXCEPT
     !.noMoreInput_ = TRUE,
     !.lastProbe_ =
        IF /\ (isRightJoin(joinType) \/ isFullJoin(joinType) \/
               isRightSemiJoin(joinType))
           /\ allPeersFinished(arrived)
        THEN TRUE ELSE @]

NoMoreInput(d) ==
  /\ ~hung[d]
  /\ needsInput(op[d])
  /\ op' = [op EXCEPT ![d] = noMoreInputOp(op[d], peersFinished)]
  /\ peersFinished' =
       IF isRightJoin(joinType) \/ isFullJoin(joinType) \/
          isRightSemiJoin(joinType)
       THEN peersFinished + 1 ELSE peersFinished
  /\ UNCHANGED <<config, buildReady, upstream, pushed, probed, ghost, buffers>>

\* --------------------------------------------------------------- evalFilter
(***************************************************************************)
(* The filter is evaluated over the pairs (mapping[i], outputRows[i]),     *)
(* i < numRows, and the survivors are compacted in place.  es is the state *)
(* of that loop:                                                           *)
(*   mapping, outputRows  rawMapping and outputRows_, of cap entries, plus *)
(*                        the entry just past their end (index cap);       *)
(*   numPassed            the write position;                              *)
(*   nmd, lsj             noMatchDetector_ and leftSemiJoinTracker_;       *)
(*   oob                  an entry past the end has been written;          *)
(*   ahead                an entry was written that had yet to be read.    *)
(***************************************************************************)

\* outputRows_[numPassed] = ptr; rawMapping[numPassed++] = row;
WriteOut(es, cap, row, ptr) ==
  [es EXCEPT !.mapping[es.numPassed] = row,
             !.outputRows[es.numPassed] = ptr,
             !.numPassed = @ + 1,
             !.oob = @ \/ es.numPassed >= cap]

\* The lambdas addMiss and addLastMatch.
addMiss(es, cap, row) == WriteOut(es, cap, row, nullptr)

\* NoMatchDetector::advance(row, passed, onMiss)
noMatchAdvance(es, cap, row, passed) ==
  LET det == es.nmd
      flushed ==
        IF det.currentRow # row /\ det.currentRow # NoRow /\ ~det.currentRowPassed
        THEN addMiss(es, cap, det.currentRow)
        ELSE es
      cur ==
        IF det.currentRow # row
        THEN [currentRow |-> row, currentRowPassed |-> FALSE]
        ELSE det
  IN [flushed EXCEPT !.nmd = [cur EXCEPT !.currentRowPassed = @ \/ passed]]

\* NoMatchDetector::finish(onMiss)
noMatchFinish(es, cap) ==
  LET det == es.nmd
      flushed ==
        IF det.currentRow # NoRow /\ ~det.currentRowPassed
        THEN addMiss(es, cap, det.currentRow)
        ELSE es
  IN [flushed EXCEPT !.nmd = [currentRow |-> NoRow, currentRowPassed |-> FALSE]]

\* LeftSemiJoinTracker::advance(row, onLastMatch)
leftSemiAdvance(es, cap, row) ==
  LET cur == es.lsj.currentRow
      flushed ==
        IF cur # row /\ cur # NoRow THEN addMiss(es, cap, cur) ELSE es
  IN [flushed EXCEPT !.lsj = [currentRow |-> row]]

\* LeftSemiJoinTracker::finish(onLastMatch)
leftSemiFinish(es, cap) ==
  LET cur == es.lsj.currentRow
      flushed == IF cur # NoRow THEN addMiss(es, cap, cur) ELSE es
  IN [flushed EXCEPT !.lsj = [currentRow |-> NoRow]]

\* filter_->eval over the filter input built by fillFilterInput: row i of
\* it is probe row mapping[i] with the columns of build row outputRows[i].
\* The result is decoded once, before the compaction loop runs.
filterResultOf(f, batch, tbl, mapping, outputRows, numRows) ==
  [i \in 0..(numRows - 1) |->
     LET pv == RowAt(batch, mapping[i]).v
         bv == BuildVal(tbl, outputRows[i])
     IN [isNull |-> FilterIsNull(f, pv, bv), passed |-> FilterPassed(f, pv, bv)]]

\* evalFilter, left and full joins: lines 726-744.
RECURSIVE evalFilterLeftLoop(_, _, _, _, _)
evalFilterLeftLoop(es, cap, res, i, numRows) ==
  IF i >= numRows THEN es
  ELSE
    LET passed == res[i].passed
        adv == noMatchAdvance(es, cap, es.mapping[i], passed)
        out == IF passed
               THEN [WriteOut(adv, cap, adv.mapping[i], adv.outputRows[i])
                       EXCEPT !.ahead = @ \/ adv.numPassed > i]
               ELSE adv
    IN evalFilterLeftLoop(out, cap, res, i + 1, numRows)

evalFilterLeft(es, cap, res, numRows, cursorAtEnd) ==
  LET looped == evalFilterLeftLoop(es, cap, res, 0, numRows)
  IN IF cursorAtEnd THEN noMatchFinish(looped, cap) ELSE looped

\* evalFilter, left semi join: lines 745-758.
RECURSIVE evalFilterLeftSemiLoop(_, _, _, _, _)
evalFilterLeftSemiLoop(es, cap, res, i, numRows) ==
  IF i >= numRows THEN es
  ELSE evalFilterLeftSemiLoop(
         IF res[i].passed THEN leftSemiAdvance(es, cap, es.mapping[i]) ELSE es,
         cap, res, i + 1, numRows)

evalFilterLeftSemi(es, cap, res, numRows, cursorAtEnd) ==
  LET looped == evalFilterLeftSemiLoop(es, cap, res, 0, numRows)
  IN IF cursorAtEnd THEN leftSemiFinish(looped, cap) ELSE looped

\* evalFilter, inner, right and right semi joins: lines 761-769.
RECURSIVE evalFilterInnerLoop(_, _, _, _, _)
evalFilterInnerLoop(es, cap, res, i, numRows) ==
  IF i >= numRows THEN es
  ELSE evalFilterInnerLoop(
         IF res[i].passed
         THEN WriteOut(es, cap, es.mapping[i], es.outputRows[i])
         ELSE es,
         cap, res, i + 1, numRows)

\* nonNullRows_.isValid(j).  When addInput has not sized nonNullRows_ for
\* the batch (it returns early over an empty build), the read is outside
\* the vector: any bit may come back, here bits[j].
nonNullIsValid(nonNull, bits, j) ==
  IF j \in DOMAIN nonNull THEN nonNull[j] ELSE bits[j]

\* testFilterOnBuildSide(rows, nullKeyRowsOnly): probe row j stays selected
\* unless the filter passes on it with some build row of the container
\* (with some build row that has a null key, when nullKeyRowsOnly).
testFilterOnBuildSide(f, batch, tbl, rows, nullKeyRowsOnly) ==
  { j \in rows :
      ~ \E p \in 1..Len(tbl) :
          /\ (nullKeyRowsOnly => tbl[p].k = NULL)
          /\ FilterPassed(f, RowAt(batch, j).v, tbl[p].v) }

\* The per-pair verdict of the second loop of evalFilterInNullAwareAntiJoin,
\* lines 684-698.  c holds what the loop reads and does not change.
antiPassed(c, res, testNullKeyRows, testAllRows, i, j) ==
  IF propagatesNulls(c.f) /\ RowAt(c.batch, c.orig[i]).v = NULL
  THEN FALSE
  ELSE IF nonNullIsValid(c.nonNull, c.bits, j)
  THEN IF res[i].passed THEN TRUE ELSE j \notin testNullKeyRows
  ELSE j \notin testAllRows

RECURSIVE evalFilterAntiLoop(_, _, _, _, _, _, _)
evalFilterAntiLoop(es, c, res, testNullKeyRows, testAllRows, i, numRows) ==
  IF i >= numRows THEN es
  ELSE
    LET j == es.mapping[i]
        passed == antiPassed(c, res, testNullKeyRows, testAllRows, i, j)
    IN evalFilterAntiLoop(noMatchAdvance(es, c.cap, j, passed),
                          c, res, testNullKeyRows, testAllRows, i + 1, numRows)

\* evalFilterInNullAwareAntiJoin: lines 647-705.  c.orig is the mapping as
\* fillFilterInput saw it (nullFilterProbeInputRows_ is computed from it).
evalFilterInNullAwareAntiJoin(es, c, res, numRows, cursorAtEnd) ==
  LET idx == 0..(numRows - 1)
      rawMapping == es.mapping
      nullInput(i) ==
        propagatesNulls(c.f) /\ RowAt(c.batch, c.orig[i]).v = NULL
      valid(i) == nonNullIsValid(c.nonNull, c.bits, rawMapping[i])
      skipRows == { i \in idx : nullInput(i) \/ (valid(i) /\ res[i].passed) }
      skipped == { rawMapping[i] : i \in skipRows }
      testNullKeyRows0 ==
        { rawMapping[i] :
            i \in { x \in idx : ~nullInput(x) /\ valid(x) /\ ~res[x].passed } }
      testAllRows0 ==
        { rawMapping[i] : i \in { x \in idx : ~nullInput(x) /\ ~valid(x) } }
      testNullKeyRows ==
        testFilterOnBuildSide(c.f, c.batch, c.tbl,
                              testNullKeyRows0 \ skipped, TRUE)
      testAllRows ==
        testFilterOnBuildSide(c.f, c.batch, c.tbl, testAllRows0 \ skipped, FALSE)
      looped ==
        evalFilterAntiLoop(es, c, res, testNullKeyRows, testAllRows, 0, numRows)
  IN IF cursorAtEnd THEN noMatchFinish(looped, c.cap) ELSE looped

\* evalFilter: lines 707-771.  Returns the loop state; numPassed is the
\* value evalFilter returns.
evalFilter(es, c, numRows, cursorAtEnd) ==
  IF c.f = "none"
  THEN [es EXCEPT !.numPassed = numRows]
  ELSE
    LET res == filterResultOf(c.f, c.batch, c.tbl, es.mapping, es.outputRows,
                              numRows)
        start == [es EXCEPT !.numPassed = 0]
    IN
      IF isLeftJoin(c.jt) \/ isFullJoin(c.jt)
      THEN evalFilterLeft(start, c.cap, res, numRows, cursorAtEnd)
      ELSE IF isLeftSemiJoin(c.jt)
      THEN evalFilterLeftSemi(start, c.cap, res, numRows, cursorAtEnd)
      ELSE IF isNullAwareAntiJoin(c.jt)
      THEN evalFilterInNullAwareAntiJoin(start, c, res, numRows, cursorAtEnd)
      ELSE evalFilterInnerLoop(start, c.cap, res, 0, numRows)

\* ---------------------------------------------------------------- getOutput
isRightFamily(jt) == isRightJoin(jt) \/ isFullJoin(jt) \/ isRightSemiJoin(jt)

includeMissesFor(jt) ==
  isLeftJoin(jt) \/ isFullJoin(jt) \/ isNullAwareAntiJoin(jt)

isLeftSemiOrAntiJoinNoFilter(jt, f) ==
  f = "none" /\ (isLeftSemiJoin(jt) \/ isNullAwareAntiJoin(jt))

\* Lines 466-468.
outputBatchSizeFor(jt, f, emptyBuildSide, inputSize, preferred) ==
  IF isLeftSemiOrAntiJoinNoFilter(jt, f) \/ emptyBuildSide
  THEN inputSize
  ELSE preferred

\* What a read of an entry past the end can give when the memory there
\* no longer holds what was written.
GarbageRow == [p |-> -2, b |-> -2]

\* Row i of the batch that fillOutput(numOut) assembles: probe columns of
\* row mapping[i], build columns of row outputRows[i].
outputRowAt(es, cap, corrupt, i) ==
  IF i >= cap /\ corrupt
  THEN GarbageRow
  ELSE [p |-> es.mapping[i], b |-> es.outputRows[i]]

fillOutput(es, cap, corrupt, numOut) ==
  [i \in 1..numOut |-> outputRowAt(es, cap, corrupt, i - 1)]

\* The rows setProbedFlag(outputRows_.data(), numOut) addresses.
probedRowsOf(es, cap, corrupt, numOut) ==
  { es.outputRows[i] : i \in { x \in 0..(numOut - 1) : ~(x >= cap /\ corrupt) } }

\* A listing that does not look at nonNullRows_ for an anti join without
\* filter.
listPairsKeepsNullKeys(o, c, ls) ==
  LET inputSize == Len(o.input_)
  IN
    IF c.emptyBuildSide
    THEN
      [ls EXCEPT !.numOut = inputSize,
                 !.mapping = [i \in DOMAIN ls.mapping |->
                                IF i < c.cap THEN i ELSE ls.mapping[i]]]
    ELSE IF isNullAwareAntiJoin(c.jt) /\ c.f = "none"
    THEN
      LET sel == SelectedRows(
                   [i \in 0..(inputSize - 1) |->
                      ~o.activeRows_[i] \/ o.lookup_.hits[i] = nullptr],
                   inputSize)
      IN [ls EXCEPT !.numOut = Len(sel),
                    !.mapping = [i \in DOMAIN ls.mapping |->
                                   IF i < Len(sel) THEN sel[i + 1]
                                   ELSE ls.mapping[i]]]
    ELSE
      listJoinResults(c.tbl, o.lookup_, includeMissesFor(c.jt), c.cap,
                      [ls EXCEPT !.numOut = 0])

\* Lines 476-498: the three ways one pass of the loop gets its pairs.
listPairs(o, c, ls) ==
  LET inputSize == Len(o.input_)
  IN
    IF c.emptyBuildSide
    THEN
      [ls EXCEPT !.numOut = inputSize,
                 !.mapping = [i \in DOMAIN ls.mapping |->
                                IF i < c.cap THEN i ELSE ls.mapping[i]]]
    ELSE IF isNullAwareAntiJoin(c.jt) /\ c.f = "none"
    THEN
      LET sel == SelectedRows(
                   [i \in 0..(inputSize - 1) |->
                      /\ o.nonNullRows_[i]
                      /\ (~o.activeRows_[i] \/ o.lookup_.hits[i] = nullptr)],
                   inputSize)
      IN [ls EXCEPT !.numOut = Len(sel),
                    !.mapping = [i \in DOMAIN ls.mapping |->
                                   IF i < Len(sel) THEN sel[i + 1]
                                   ELSE ls.mapping[i]]]
    ELSE
      listJoinResults(c.tbl, o.lookup_, includeMissesFor(c.jt), c.cap,
                      [ls EXCEPT !.numOut = 0])

(***************************************************************************)
(* The loop of getOutput, lines 473-537.  ls is what one pass hands to the *)
(* next: the cursor results_ (lastRowIndex, nextHit), the two trackers,    *)
(* the two arrays and the probed flags.  The result says what getOutput    *)
(* returns (ret), whether input_ is reset (release), and the state left.   *)
(* A pass that ends in `continue` with nothing changed repeats for ever    *)
(* (hang).                                                                 *)
(***************************************************************************)
loopResult(st, ret, release, oob, hang) ==
  [ret |-> ret, release |-> release, hang |-> hang, oob |-> oob,
   lastRowIndex |-> st.lastRowIndex, nextHit |-> st.nextHit,
   nmd |-> st.nmd, lsj |-> st.lsj, flags |-> st.flags, ahead |-> st.ahead]

\* results_.atEnd() once the pairs of this pass are listed.
cursorAtEndOf(o, listed) ==
  atEnd([o.results_ EXCEPT !.lastRowIndex = listed.lastRowIndex,
                           !.nextHit = listed.nextHit],
        o.lookup_)

\* The loop state once evalFilter has compacted the arrays.
afterFilter(listed, es) ==
  [listed EXCEPT !.mapping = es.mapping, !.outputRows = es.outputRows,
                 !.nmd = es.nmd, !.lsj = es.lsj, !.ahead = @ \/ es.ahead]

\* Lines 516-520: mark the build rows of the pairs that passed.
markProbed(c, st, es) ==
  IF isRightFamily(c.jt)
  THEN [st EXCEPT !.flags = setProbedFlag(
          @, probedRowsOf(es, c.cap, c.corrupt, es.numPassed))]
  ELSE st

\* A getOutput that gives up its input with the first batch it returns.
emitPassedReleasesInput(c, st, es, cursorAtEnd) ==
  loopResult(st, fillOutput(es, c.cap, c.corrupt, es.numPassed), TRUE,
             es.oob, FALSE)

\* Lines 516-536: a pass whose filter let rows through.
emitPassed(c, st, es, cursorAtEnd) ==
  IF isRightSemiJoin(c.jt)
  THEN loopResult(st, NoBatch, cursorAtEnd, es.oob, FALSE)
  ELSE loopResult(st, fillOutput(es, c.cap, c.corrupt, es.numPassed),
                  isLeftSemiOrAntiJoinNoFilter(c.jt, c.f) \/ c.emptyBuildSide,
                  es.oob, FALSE)

RECURSIVE getOutputLoop(_, _, _)

\* Lines 506-536: what follows evalFilter.
afterEval(o, c, ls, st, es, cursorAtEnd) ==
  IF es.numPassed # 0
  THEN emitPassed(c, markProbed(c, st, es), es, cursorAtEnd)
  ELSE IF isLeftSemiOrAntiJoinNoFilter(c.jt, c.f)
  THEN loopResult(st, NoBatch, TRUE, es.oob, FALSE)
  ELSE IF [st EXCEPT !.numOut = 0] = [ls EXCEPT !.numOut = 0]
  THEN loopResult(st, NoBatch, FALSE, es.oob, TRUE)
  ELSE getOutputLoop(o, c, st)

\* evalFilter on the pairs just listed.
filterListed(c, ls, listed, cursorAtEnd) ==
  evalFilter(
    [mapping |-> listed.mapping, outputRows |-> listed.outputRows,
     numPassed |-> 0, nmd |-> ls.nmd, lsj |-> ls.lsj, oob |-> FALSE,
     ahead |-> FALSE],
    [c EXCEPT !.orig = listed.mapping], listed.numOut, cursorAtEnd)

evalListed(o, c, ls, listed, es, cursorAtEnd) ==
  afterEval(o, c, ls, afterFilter(listed, es), es, cursorAtEnd)

\* Lines 500-506: what follows the listing of the pairs.
afterList(o, c, ls, listed, cursorAtEnd) ==
  IF listed.numOut = 0
  THEN loopResult(listed, NoBatch, TRUE, FALSE, FALSE)
  ELSE evalListed(o, c, ls, listed,
                  filterListed(c, ls, listed, cursorAtEnd), cursorAtEnd)

listedPass(o, c, ls, listed) ==
  afterList(o, c, ls, listed, cursorAtEndOf(o, listed))

getOutputLoop(o, c, ls) == listedPass(o, c, ls, listPairs(o, c, ls))

\* getBuildSideOutput, lines 382-418: the probed rows for a right semi
\* join, the rows not probed for a right or full join, outputBatchSize_ at
\* a time, with null probe columns.
getBuildSideOutput(o) ==
  IF isRightSemiJoin(joinType)
  THEN listProbedRows(build, probed, outputBatchSize_, o.lastProbeIterator_)
  ELSE listNotProbedRows(build, probed, outputBatchSize_, o.lastProbeIterator_)

buildSideRows(ptrs) == [i \in 1..Len(ptrs) |-> [p |-> NoRow, b |-> ptrs[i]]]

\* A getOutput that drains the build side whether or not it is the last
\* probe.
drainsBuildSideAnyDriver(o) ==
  /\ o.input_ = NoBatch
  /\ o.noMoreInput_
  /\ isRightFamily(joinType)

\* Lines 431-441: getOutput drains the build side.
drainsBuildSide(o) ==
  /\ o.input_ = NoBatch
  /\ o.noMoreInput_
  /\ isRightFamily(joinType)
  /\ o.lastProbe_

\* The bits a read outside nonNullRows_ may give: only a null-aware anti
\* join with a filter over an empty build reads it unsized.
GarbageBits(o) ==
  IF /\ o.input_ # NoBatch
     /\ ~o.replacedWithDynamicFilter_
     /\ o.table_
     /\ numDistinct(build) = 0
     /\ isNullAwareAntiJoin(joinType)
     /\ filter # "none"
  THEN [0..(Len(o.input_) - 1) -> BOOLEAN]
  ELSE { ArrayOf(0, FALSE) }

\* The loop of getOutput on the operator's state.
probeLoop(o, bits, corrupt) ==
  LET inputSize == Len(o.input_)
      emptyBuildSide == numDistinct(build) = 0
      cap == outputBatchSizeFor(joinType, filter, emptyBuildSide, inputSize,
                                outputBatchSize_)
  IN getOutputLoop(o,
       [jt |-> joinType, f |-> filter, batch |-> o.input_, tbl |-> build,
        nonNull |-> o.nonNullRows_, bits |-> bits, cap |-> cap,
        emptyBuildSide |-> emptyBuildSide, corrupt |-> corrupt,
        orig |-> ArrayOf(0, 0)],
       [lastRowIndex |-> o.results_.lastRowIndex,
        nextHit |-> o.results_.nextHit,
        numOut |-> 0,
        mapping |-> ArrayOf(cap + 1, 0),
        outputRows |-> ArrayOf(cap + 1, nullptr),
        nmd |-> o.noMatchDetector_,
        lsj |-> o.leftSemiJoinTracker_,
        flags |-> probed,
        ahead |-> FALSE])

\* The rows of the input handed through after dynamic-filter replacement.
passThrough(batch) == [i \in 1..Len(batch) |-> [p |-> i - 1, b |-> nullptr]]

\* The build rows a batch of output pairs with a probe row.
pairedIn(rows) ==
  { rows[i].b : i \in { x \in 1..Len(rows) :
                          rows[x].p >= 0 /\ rows[x].b >= 1 } }

\* ----------------------------------------------- output vectors and buffers
\* The row vector output_ points at is written: its size or a child.
touchOutput(b) == [b EXCEPT !.clobbered = @ \/ b.outputShared]

\* The buffer rowNumberMapping_ points at is written.
touchMapping(b) ==
  [b EXCEPT !.clobbered =
     @ \/ (b.outputShared /\ b.probeChildren = "wraps") \/ b.columnShared]

\* mapping->unique(): the member is the only reference to the buffer.
mappingUnique(b) ==
  /\ b.probeChildren # "wraps"
  /\ ~b.columnShared
  /\ ~b.filterWraps

\* Lines 420-427.
clearIdentityProjectedOutput(b) ==
  IF ~b.output_ \/ b.outputShared
  THEN b
  ELSE touchOutput([b EXCEPT !.probeChildren = "null"])

\* allocateIndices(size, pool): no vector wraps the new buffer yet.
allocateIndices(b, size) ==
  [b EXCEPT !.rowNumberMapping_ = size,
            !.probeChildren = IF @ = "wraps" THEN "other" ELSE @,
            !.columnShared = FALSE,
            !.filterWraps = FALSE,
            !.reallocated =
               @ \/ (b.outputShared /\ b.probeChildren = "wraps")
                 \/ b.columnShared]

\* An initializeRowNumberMapping that looks at the size of the buffer only.
initializeRowNumberMappingBySize(b, size) ==
  IF b.rowNumberMapping_ = NoBuffer \/ b.rowNumberMapping_ < size
  THEN allocateIndices(b, size)
  ELSE [b EXCEPT !.reused = TRUE]

\* Lines 77-86.
initializeRowNumberMapping(b, size) ==
  IF \/ b.rowNumberMapping_ = NoBuffer
     \/ ~mappingUnique(b)
     \/ b.rowNumberMapping_ < size
  THEN allocateIndices(b, size)
  ELSE [b EXCEPT !.reused = TRUE]

\* Lines 540-551: the probe columns of filterInput_ become dictionaries
\* over rowNumberMapping_.
fillFilterInput(b) == [b EXCEPT !.filterWraps = TRUE]

\* A row vector no one else holds, with null children.
newOutput(b) ==
  [b EXCEPT !.output_ = TRUE,
            !.outputShared = FALSE,
            !.probeChildren = "null",
            !.buildChildShared = FALSE,
            !.columnShared = @ \/ (b.outputShared /\ b.probeChildren = "wraps"),
            !.reallocated = @ \/ b.outputShared]

\* BaseVector::prepareForReuse: a vector that is not unique is replaced by
\* a new one; a unique row vector is kept, its null children stay null,
\* a child that is a dictionary or is held elsewhere is replaced.
prepareForReuse(b) ==
  IF b.outputShared
  THEN newOutput(b)
  ELSE touchOutput(
         [b EXCEPT !.probeChildren = IF @ = "null" THEN "null" ELSE "other",
                   !.buildChildShared = FALSE,
                   !.reused = TRUE])

\* Lines 346-359.
prepareOutput(b) == IF b.output_ THEN prepareForReuse(b) ELSE newOutput(b)

\* Lines 57-75: a build-side child is written in place when
\* isVectorWritable, and is replaced by a new vector otherwise.
extractColumns(b) ==
  IF ~tableResultProjections_
  THEN b
  ELSE touchOutput([b EXCEPT !.buildChildShared = FALSE])

\* Lines 364-372: the probe-side children become dictionaries over
\* rowNumberMapping_.
wrapChildren(b) == touchOutput([b EXCEPT !.probeChildren = "wraps"])

\* Lines 404-409: the probe-side children become null constants.
nullChildren(b) == touchOutput([b EXCEPT !.probeChildren = "other"])

\* getOutput returns output_: the consumer holds it.
returned(b) == [b EXCEPT !.outputShared = TRUE]

\* Lines 361-380 and the return of output_.
fillOutputBuffers(b) == returned(extractColumns(wrapChildren(prepareOutput(b))))

\* Lines 398-417 and the return of output_.
buildSideBuffers(b) == returned(extractColumns(nullChildren(prepareOutput(b))))

\* What remains of getOutput once the mapping is there: the loop writes it
\* when a pass lists a row, evalFilter wraps it into filterInput_ and
\* compacts it, fillOutput wraps it into the batch returned.
loopBuffers(b, listed, filtered, filled) ==
  IF ~listed THEN b
  ELSE IF filled
  THEN fillOutputBuffers(
         IF filtered THEN touchMapping(fillFilterInput(touchMapping(b)))
         ELSE touchMapping(b))
  ELSE IF filtered THEN touchMapping(fillFilterInput(touchMapping(b)))
  ELSE touchMapping(b)

\* getOutput with input_ set, lines 430 and 469-537.
probeBuffers(b, size, listed, filtered, filled) ==
  loopBuffers(
    initializeRowNumberMapping(clearIdentityProjectedOutput(b), size),
    listed, filtered, filled)

\* The first pass of the loop lists a row.
listsAny(o) ==
  LET inputSize == Len(o.input_)
      emptyBuildSide == numDistinct(build) = 0
      cap == outputBatchSizeFor(joinType, filter, emptyBuildSide, inputSize,
                                outputBatchSize_)
  IN listPairs(o,
       [jt |-> joinType, f |-> filter, tbl |-> build, cap |-> cap,
        emptyBuildSide |-> emptyBuildSide],
       [lastRowIndex |-> o.results_.lastRowIndex,
        nextHit |-> o.results_.nextHit,
        numOut |-> 0,
        mapping |-> ArrayOf(cap + 1, 0),
        outputRows |-> ArrayOf(cap + 1, nullptr)]).numOut # 0

\* outputBatchSize of lines 466-468.
mappingSize(o) ==
  outputBatchSizeFor(joinType, filter, numDistinct(build) = 0,
                     Len(o.input_), outputBatchSize_)

\* getOutput with input_ set and no dynamic-filter replacement: the effect
\* of the loop's result r.
ProbeOutput(d, r, corrupt) ==
  /\ corrupt => r.oob
  /\ op' = [op EXCEPT
       ![d].input_ = IF r.release THEN NoBatch ELSE @,
       ![d].results_.lastRowIndex = r.lastRowIndex,
       ![d].results_.nextHit = r.nextHit,
       ![d].noMatchDetector_ = r.nmd,
       ![d].leftSemiJoinTracker_ = r.lsj]
  /\ probed' = r.flags
  /\ output' = [output EXCEPT ![d] = r.ret]
  /\ emitted' = [emitted EXCEPT ![d] = @ \o r.ret]
  /\ paired' = paired \cup pairedIn(r.ret)
  /\ overflow' = [overflow EXCEPT ![d] = @ \/ r.oob]
  /\ hung' = [hung EXCEPT ![d] = r.hang]
  /\ ahead' = [ahead EXCEPT ![d] = @ \/ r.ahead]
  /\ buffers' = [buffers EXCEPT ![d] =
       probeBuffers(@, mappingSize(op[d]), listsAny(op[d]), filter # "none",
                    r.ret # NoBatch)]
  /\ UNCHANGED <<drain, matched, drainStarted>>

\* A last probe that is not finished by an empty build-side output.
BuildSideOutputNeverFinishes(d, listed, rows) ==
  /\ op' = [op EXCEPT ![d].lastProbeIterator_ = listed.iter]
  /\ output' = [output EXCEPT ![d] = rows]
  /\ drain' = [drain EXCEPT ![d] = @ \o rows]
  /\ drainStarted' = TRUE
  /\ buffers' = [buffers EXCEPT ![d] =
       IF rows = <<>>
       THEN clearIdentityProjectedOutput(@)
       ELSE buildSideBuffers(clearIdentityProjectedOutput(@))]
  /\ UNCHANGED <<probed, emitted, paired, matched, overflow, hung, ahead>>

\* getOutput of the last probe once its input has ended.
BuildSideOutput(d, listed, rows) ==
  /\ op' = [op EXCEPT ![d].lastProbeIterator_ = listed.iter,
                      ![d].finished_ = IF rows = <<>> THEN TRUE ELSE @]
  /\ output' = [output EXCEPT ![d] = rows]
  /\ drain' = [drain EXCEPT ![d] = @ \o rows]
  /\ drainStarted' = TRUE
  /\ buffers' = [buffers EXCEPT ![d] =
       IF rows = <<>>
       THEN clearIdentityProjectedOutput(@)
       ELSE buildSideBuffers(clearIdentityProjectedOutput(@))]
  /\ UNCHANGED <<probed, emitted, paired, matched, overflow, hung, ahead>>

DrainOutput(d, listed) == BuildSideOutput(d, listed, buildSideRows(listed.rows))

GetOutput(d) ==
  /\ ~hung[d]
  /\ notBlocked(op[d])
  /\ UNCHANGED <<config, buildReady, upstream, pushed, peersFinished,
                 lastInput>>
  /\ IF drainsBuildSide(op[d])
     THEN DrainOutput(d, getBuildSideOutput(op[d]))
     ELSE IF op[d].input_ = NoBatch
     THEN
       /\ op' = [op EXCEPT
            ![d].finished_ = IF op[d].noMoreInput_ THEN TRUE ELSE @]
       /\ output' = [output EXCEPT ![d] = NoBatch]
       /\ buffers' = [buffers EXCEPT ![d] = clearIdentityProjectedOutput(@)]
       /\ UNCHANGED <<probed, emitted, drain, paired, matched, drainStarted,
                      overflow, hung, ahead>>
     ELSE IF op[d].replacedWithDynamicFilter_
     THEN
       /\ op' = [op EXCEPT ![d].input_ = NoBatch]
       /\ output' = [output EXCEPT ![d] = passThrough(op[d].input_)]
       /\ emitted' = [emitted EXCEPT ![d] = @ \o passThrough(op[d].input_)]
       /\ buffers' = [buffers EXCEPT ![d] = clearIdentityProjectedOutput(@)]
       /\ UNCHANGED <<probed, drain, paired, matched, drainStarted, overflow,
                      hung, ahead>>
     ELSE
       \E bits \in GarbageBits(op[d]) : \E corrupt \in BOOLEAN :
         ProbeOutput(d, probeLoop(op[d], bits, corrupt), corrupt)

\* ------------------------------------------------------------ the consumer
\* The consumer of the output lets go of the batch it was handed; it may
\* keep a probe-side column or a build-side column of it.
ConsumerReleases(d, keepColumn, keepBuild) ==
  /\ \/ buffers[d].outputShared
     \/ buffers[d].columnShared
     \/ buffers[d].buildChildShared
  /\ buffers' = [buffers EXCEPT ![d] =
       [@ EXCEPT
          !.outputShared = FALSE,
          !.columnShared =
             /\ keepColumn
             /\ \/ buffers[d].columnShared
                \/ buffers[d].outputShared /\ buffers[d].probeChildren = "wraps",
          !.buildChildShared =
             /\ keepBuild
             /\ tableResultProjections_
             /\ buffers[d].buildChildShared \/ buffers[d].outputShared]]
  /\ UNCHANGED <<config, buildReady, upstream, pushed, op, probed,
                 peersFinished, ghost>>

\* ------------------------------------------------------------------- Next
Next ==
  \/ BuildFinishes
  \/ \E d \in drivers : IsBlocked(d)
  \/ \E d \in drivers : ClearDynamicFilters(d)
  \/ \E d \in drivers : \E batch \in BatchesOf(probeRows) : AddInput(d, batch)
  \/ \E d \in drivers : GetOutput(d)
  \/ \E d \in drivers : NoMoreInput(d)

\* The steps of a join that publishes no dynamic filter: isBlocked creates
\* one for inner, left semi and right semi joins only, and only when the
\* upstream accepts it, so clearDynamicFilters is never called otherwise.
NextNoDynamicFilters ==
  \/ BuildFinishes
  \/ \E d \in drivers : IsBlocked(d)
  \/ \E d \in drivers : \E batch \in BatchesOf(probeRows) : AddInput(d, batch)
  \/ \E d \in drivers : GetOutput(d)
  \/ \E d \in drivers : NoMoreInput(d)

\* The steps of the join and of a consumer that lets go of what it holds.
NextWithConsumer ==
  \/ NextNoDynamicFilters
  \/ \E d \in drivers : \E keepColumn, keepBuild \in BOOLEAN :
        ConsumerReleases(d, keepColumn, keepBuild)

\* --------------------------------------------------------- specifications
\* One driver, inner join, every build, with and without the filter
\* p.v < b.v, with and without dynamic-filter pushdown.
InitInner ==
  /\ joinType = "inner"
  /\ filter \in {"none", "lt"}
  /\ probeRows = { [k |-> 1, v |-> 0], [k |-> 2, v |-> 0], [k |-> NULL, v |-> 0] }
  /\ build \in Builds
  /\ hashMode \in HashModes
  /\ pushdown \in (IF hashMode = "kHash" THEN {FALSE} ELSE BOOLEAN)
  /\ tableResultProjections_ = FALSE
  /\ keyChannels_ = 1
  /\ drivers = {1}
  /\ batchRows = [d \in drivers |-> MaxBatchRows]
  /\ upstream = [d \in drivers |-> MaxBatches]
  /\ InitCommon

SpecInner == InitInner /\ [][Next]_vars

\* One driver, left join, every build, with and without the filter.
InitLeft ==
  /\ joinType = "left"
  /\ filter \in {"none", "lt"}
  /\ probeRows = { [k |-> 1, v |-> 0], [k |-> 1, v |-> 1], [k |-> NULL, v |-> 0] }
  /\ build \in Builds
  /\ hashMode \in HashModes
  /\ pushdown = FALSE
  /\ tableResultProjections_ = TRUE
  /\ keyChannels_ = 1
  /\ drivers = {1}
  /\ batchRows = [d \in drivers |-> MaxBatchRows]
  /\ upstream = [d \in drivers |-> MaxBatches]
  /\ InitCommon

SpecLeft == InitLeft /\ [][NextNoDynamicFilters]_vars

\* One driver, left semi join with the filter p.v < b.v, every build.
InitLeftSemi ==
  /\ joinType = "leftSemi"
  /\ filter = "lt"
  /\ probeRows = { [k |-> 1, v |-> 0], [k |-> 1, v |-> 1], [k |-> 2, v |-> 0] }
  /\ build \in Builds
  /\ hashMode \in HashModes
  /\ pushdown = FALSE
  /\ tableResultProjections_ = FALSE
  /\ keyChannels_ = 1
  /\ drivers = {1}
  /\ batchRows = [d \in drivers |-> MaxBatchRows]
  /\ upstream = [d \in drivers |-> MaxBatches]
  /\ InitCommon

SpecLeftSemi == InitLeftSemi /\ [][NextNoDynamicFilters]_vars

\* One driver, null-aware anti join, every build, with and without the
\* filter; probe rows with a null key and with a null filter input.
InitAnti ==
  /\ joinType = "nullAwareAnti"
  /\ filter \in {"none", "lt"}
  /\ probeRows = { [k |-> 1, v |-> 0], [k |-> NULL, v |-> 0], [k |-> 1, v |-> NULL] }
  /\ build \in Builds
  /\ hashMode \in HashModes
  /\ pushdown = FALSE
  /\ tableResultProjections_ = FALSE
  /\ keyChannels_ = 1
  /\ drivers = {1}
  /\ batchRows = [d \in drivers |-> MaxBatchRows]
  /\ upstream = [d \in drivers |-> MaxBatches]
  /\ InitCommon

SpecAnti == InitAnti /\ [][NextNoDynamicFilters]_vars

\* One driver, empty build side, the join types that run over it (left,
\* full, null-aware anti), without filter and with either filter.
InitEmptyBuild ==
  /\ joinType \in {"left", "full", "nullAwareAnti"}
  /\ filter \in FilterKinds
  /\ probeRows = { [k |-> 1, v |-> 0], [k |-> 1, v |-> 1], [k |-> NULL, v |-> 0] }
  /\ build = <<>>
  /\ hashMode = "kHash"
  /\ pushdown = FALSE
  /\ tableResultProjections_ = TRUE
  /\ keyChannels_ = 1
  /\ drivers = {1}
  /\ batchRows = [d \in drivers |-> MaxBatchRows]
  /\ upstream = [d \in drivers |-> MaxBatches]
  /\ InitCommon

SpecEmptyBuild == InitEmptyBuild /\ [][NextNoDynamicFilters]_vars

\* NumDrivers drivers sharing one build table, the join types that drain
\* the build side (right, full, right semi), one input batch per driver (of
\* one row for every driver but the first), with and without the filter,
\* and for the right semi join with and without dynamic-filter pushdown.
InitRightFamily ==
  /\ joinType \in {"right", "full", "rightSemi"}
  /\ filter \in {"none", "lt"}
  /\ probeRows = { [k |-> 1, v |-> 0], [k |-> 1, v |-> 1] }
  /\ build \in SeqsUpTo({ [k |-> 1, v |-> 1], [k |-> NULL, v |-> 1] }, MaxBuildRows)
  /\ hashMode \in HashModes
  /\ pushdown \in (IF joinType = "rightSemi" /\ hashMode # "kHash"
                    THEN BOOLEAN ELSE {FALSE})
  /\ tableResultProjections_ = (joinType # "rightSemi")
  /\ keyChannels_ = 1
  /\ drivers = AllDrivers
  /\ batchRows = [d \in drivers |-> IF d = 1 THEN MaxBatchRows ELSE 1]
  /\ upstream = [d \in drivers |-> 1]
  /\ InitCommon

SpecRightFamily == InitRightFamily /\ [][Next]_vars

\* One driver, every join type over empty, unique-key and duplicate-key
\* builds, one input batch, with and without the filter, key columns, build
\* columns in the output, and an upstream that takes the dynamic filter.
InitAllJoins ==
  /\ joinType \in JoinTypes
  /\ filter \in {"none", "lt"}
  /\ probeRows = { [k |-> 1, v |-> 0], [k |-> 2, v |-> 0] }
  /\ build \in SeqsUpTo({ [k |-> 1, v |-> 1], [k |-> 2, v |-> 1] }, MaxBuildRows)
  /\ hashMode \in HashModes
  /\ pushdown \in BOOLEAN
  /\ tableResultProjections_ \in BOOLEAN
  /\ keyChannels_ \in {1, 2}
  /\ drivers = {1}
  /\ batchRows = [d \in drivers |-> 2]
  /\ upstream = [d \in drivers |-> 1]
  /\ InitCommon

SpecAllJoins == InitAllJoins /\ [][Next]_vars

\* Every join type, one or two drivers with one batch of one row each.
\* The driver's loop calls getOutput on an operator that is not blocked
\* again and again until the operator is finished; the calls that matter
\* once input has ended find no input in the operator.
InitFair ==
  /\ joinType \in JoinTypes
  /\ filter \in {"none", "lt"}
  /\ probeRows = { [k |-> 1, v |-> 0] }
  /\ build \in SeqsUpTo({ [k |-> 1, v |-> 1] }, MaxBuildRows)
  /\ hashMode = "kHash"
  /\ pushdown = FALSE
  /\ tableResultProjections_ = TRUE
  /\ keyChannels_ = 1
  /\ drivers \in { {1}, AllDrivers }
  /\ batchRows = [d \in drivers |-> 1]
  /\ upstream = [d \in drivers |-> 1]
  /\ InitCommon

SpecFair ==
  /\ InitFair
  /\ [][NextNoDynamicFilters]_vars
  /\ \A d \in AllDrivers :
        WF_vars(d \in drivers /\ op[d].input_ = NoBatch /\ GetOutput(d))

\* One driver of an inner, left or full join whose consumer lets go of the
\* batches, or keeps a column of them.
InitReuse ==
  /\ joinType \in {"inner", "left", "full"}
  /\ filter \in {"none", "lt"}
  /\ probeRows = { [k |-> 1, v |-> 0], [k |-> 2, v |-> 0] }
  /\ build \in SeqsUpTo({ [k |-> 1, v |-> 1] }, MaxBuildRows)
  /\ hashMode = "kHash"
  /\ pushdown = FALSE
  /\ tableResultProjections_ \in BOOLEAN
  /\ keyChannels_ = 1
  /\ drivers = {1}
  /\ batchRows = [d \in drivers |-> 2]
  /\ upstream = [d \in drivers |-> MaxBatches]
  /\ InitCommon

SpecReuse == InitReuse /\ [][NextWithConsumer]_vars

\* One driver, every join type, probe batches of up to two rows with null
\* keys and keys the build side does not have.
InitNullKeys ==
  /\ joinType \in JoinTypes
  /\ filter \in {"none", "lt"}
  /\ probeRows = { [k |-> 1, v |-> 0], [k |-> 1, v |-> 1], [k |-> 2, v |-> 0],
                   [k |-> NULL, v |-> 0] }
  /\ build \in SeqsUpTo({ [k |-> 1, v |-> 1] }, MaxBuildRows)
  /\ hashMode \in HashModes
  /\ pushdown = FALSE
  /\ tableResultProjections_ = TRUE
  /\ keyChannels_ = 1
  /\ drivers = {1}
  /\ batchRows = [d \in drivers |-> 2]
  /\ upstream = [d \in drivers |-> MaxBatches]
  /\ InitCommon

SpecNullKeys == InitNullKeys /\ [][NextNoDynamicFilters]_vars

\* ---------------------------------------------------------------- properties
\* The number of times x occurs in seq.
Count(seq, x) == Cardinality({ i \in 1..Len(seq) : seq[i] = x })

\* The rows of a batch, by number.
RowsOf(batch) == 0..(Len(batch) - 1)

\* The operator has given up the batch of its latest addInput: what that
\* batch yields has all been returned.
Released(d) == lastInput[d] # NoBatch /\ op[d].input_ = NoBatch

\* The pairs an inner join owes for a batch.
joinPairs(batch) ==
  { x \in { [p |-> r, b |-> q] : r \in RowsOf(batch), q \in 1..Len(build) } :
      x.b \in matchesOf(RowAt(batch, x.p)) }

\* How a pair shows in the output of driver d: after dynamic-filter
\* replacement no build column is projected and the probe row stands for
\* the pair with its only build row.
shownAs(d, x) ==
  IF op[d].replacedWithDynamicFilter_ THEN [p |-> x.p, b |-> nullptr] ELSE x

\* C1: inner join.  The rows returned for an input batch are pairs of equal
\* non-null keys on which the filter is true, none of them twice, and once
\* the batch is given up every such pair has been returned exactly once,
\* however the pairs were cut into output batches.
InnerCompleteness ==
  \A d \in drivers :
    lastInput[d] # NoBatch =>
      /\ \A i \in 1..Len(emitted[d]) :
            \E x \in joinPairs(lastInput[d]) : shownAs(d, x) = emitted[d][i]
      /\ \A x \in joinPairs(lastInput[d]) : Count(emitted[d], shownAs(d, x)) <= 1
      /\ Released(d) =>
            \A x \in joinPairs(lastInput[d]) :
              Count(emitted[d], shownAs(d, x)) = 1

\* C1 witness: with output batches of one row and the filter p.v < b.v, a
\* probe row's two pairs have been returned by different getOutput calls and
\* the batch is given up.
InnerChainSplit ==
  /\ outputBatchSize_ = 1
  /\ filter = "lt"
  /\ Released(1)
  /\ \E i, j \in 1..Len(emitted[1]) :
        i < j /\ emitted[1][i].p = emitted[1][j].p

\* The rows of the output of driver d that carry probe row r.
OutputsOf(d, r) == { i \in 1..Len(emitted[d]) : emitted[d][i].p = r }

\* C2: left join.  Once a batch is given up, every row of it has been
\* returned at least once, and a row no build row matches (equal keys and
\* filter true) has been returned exactly once, with null build columns.
LeftOuterPadding ==
  \A d \in drivers :
    Released(d) =>
      \A r \in RowsOf(lastInput[d]) :
        /\ OutputsOf(d, r) # {}
        /\ matchesOf(RowAt(lastInput[d], r)) = {} =>
              /\ Cardinality(OutputsOf(d, r)) = 1
              /\ \A i \in OutputsOf(d, r) : emitted[d][i].b = nullptr

\* C4: left semi join with a filter.  No row of a batch is returned twice,
\* a row no build row matches is never returned, and once the batch is
\* given up every row some build row matches has been returned once.
LeftSemiExactlyOnce ==
  \A d \in drivers :
    lastInput[d] # NoBatch =>
      /\ \A i \in 1..Len(emitted[d]) :
            /\ emitted[d][i].p \in RowsOf(lastInput[d])
            /\ matchesOf(RowAt(lastInput[d], emitted[d][i].p)) # {}
            /\ Cardinality(OutputsOf(d, emitted[d][i].p)) = 1
      /\ Released(d) =>
            \A r \in RowsOf(lastInput[d]) :
              matchesOf(RowAt(lastInput[d], r)) # {} => OutputsOf(d, r) # {}

\* Build row q is one a null-aware anti join compares probe row `row` with:
\* equal keys, or a null key on either side.
keyCompatible(row, q) ==
  row.k = build[q].k \/ row.k = NULL \/ build[q].k = NULL

\* C6: null-aware anti join with a filter.  Once a batch is given up, a row
\* of it has been returned iff no build row is key-compatible with it with
\* a filter result other than false (true or null).
AntiEmission ==
  \A d \in drivers :
    (filter # "none" /\ Released(d)) =>
      \A r \in RowsOf(lastInput[d]) :
        OutputsOf(d, r) # {} <=>
          ~ \E q \in 1..Len(build) :
              /\ keyCompatible(RowAt(lastInput[d], r), q)
              /\ \/ FilterIsNull(filter, RowAt(lastInput[d], r).v, build[q].v)
                 \/ FilterPassed(filter, RowAt(lastInput[d], r).v, build[q].v)

\* C7: when the build reports antiJoinHasNullKeys, the isBlocked call that
\* finds the build result leaves the operator finished, the operator never
\* takes the table or an input batch, and it never returns a row.
AntiNullKeysSuppressAll ==
  antiJoinHasNullKeys =>
    \A d \in drivers :
      /\ buildReady => isBlockedOp(op[d]).finished_
      /\ notBlocked(op[d]) => op[d].finished_ /\ ~op[d].table_
      /\ lastInput[d] = NoBatch
      /\ emitted[d] = <<>>
      /\ output[d] = NoBatch

\* C7 witness: the build had a null key, isBlocked has found the result and
\* the operator is finished without a table.
AntiNullKeysFinished ==
  /\ antiJoinHasNullKeys
  /\ buildReady
  /\ op[1].finished_
  /\ ~op[1].table_

\* Every row of the batch, in input order, with null build columns.
allRowsNullBuild(batch) == [i \in 1..Len(batch) |-> [p |-> i - 1, b |-> nullptr]]

\* C8: empty build side, left, full or null-aware anti join.  getOutput
\* always returns; while the batch is held nothing of it has been returned;
\* once it is given up, what was returned is every row of it once, in input
\* order, with null build columns.
EmptyBuildReturnsInput ==
  \A d \in drivers :
    (numDistinct(build) = 0 /\ lastInput[d] # NoBatch) =>
      /\ ~hung[d]
      /\ op[d].input_ # NoBatch => emitted[d] = <<>>
      /\ Released(d) => emitted[d] = allRowsNullBuild(lastInput[d])

\* The drains of driver d that return build row q.
DrainsOf(d, q) == { i \in 1..Len(drain[d]) : drain[d][i].b = q }

\* The number of times build row q has been returned by a drain.
TimesDrained(q) ==
  Cardinality({ x \in { <<d, i>> : d \in drivers, i \in 1..MaxBuildRows + 1 } :
                  x[2] \in DrainsOf(x[1], q) })

\* Every driver is finished.
AllFinished == \A d \in drivers : op[d].finished_

\* Build rows are returned by a drain only by the last probe, after its
\* noMoreInput, with null probe columns, and none of them twice.
DrainDiscipline ==
  /\ \A d \in drivers :
        drain[d] # <<>> =>
          /\ op[d].lastProbe_ /\ op[d].noMoreInput_
          /\ \A i \in 1..Len(drain[d]) : drain[d][i].p = NoRow
  /\ \A q \in 1..Len(build) : TimesDrained(q) <= 1

\* C3: right and full join, NumDrivers drivers.  A build row is drained
\* only by the last probe after noMoreInput, with null probe columns; a
\* build row some probe row matched is never drained; when all drivers are
\* finished every matched row has been returned with a probe row and every
\* other row has been drained exactly once.
RightFullBuildRows ==
  (isRightJoin(joinType) \/ isFullJoin(joinType)) =>
    /\ DrainDiscipline
    /\ \A q \in matched : TimesDrained(q) = 0
    /\ AllFinished =>
          \A q \in 1..Len(build) :
            IF q \in matched THEN q \in paired ELSE TimesDrained(q) = 1

\* C5: right semi join, NumDrivers drivers.  getOutput returns no batch
\* while the driver has input to come; when an input batch is given up the
\* build rows it matches have their probed flag set; the drain returns
\* matched build rows only, and when all drivers are finished each matched
\* row has been drained exactly once.
RightSemiOutput ==
  isRightSemiJoin(joinType) =>
    /\ \A d \in drivers :
          /\ emitted[d] = <<>>
          /\ Released(d) =>
                \A r \in RowsOf(lastInput[d]) :
                  matchesOf(RowAt(lastInput[d], r)) \subseteq probed
    /\ DrainDiscipline
    /\ \A q \in 1..Len(build) : TimesDrained(q) > 0 => q \in matched
    /\ AllFinished => \A q \in matched : TimesDrained(q) = 1

\* C9: at most one driver has lastProbe_, and it got it when every driver
\* had called noMoreInput; once all have called it exactly one has it; a
\* driver without it drains nothing and its next getOutput after
\* noMoreInput takes the branch that finishes it.
LastProbeElection ==
  /\ Cardinality({ d \in drivers : op[d].lastProbe_ }) <= 1
  /\ \A d \in drivers :
        op[d].lastProbe_ => \A e \in drivers : op[e].noMoreInput_
  /\ (\A d \in drivers : op[d].noMoreInput_) =>
        Cardinality({ d \in drivers : op[d].lastProbe_ }) = 1
  /\ \A d \in drivers :
        ~op[d].lastProbe_ =>
          /\ drain[d] = <<>>
          /\ op[d].noMoreInput_ =>
                ~drainsBuildSide(op[d]) /\ op[d].input_ = NoBatch

\* C9 witness: one driver is the last probe and has drained a build row,
\* another has finished without being it.
LastProbeDrains ==
  \E d, e \in drivers :
    /\ op[d].lastProbe_ /\ drain[d] # <<>>
    /\ ~op[e].lastProbe_ /\ op[e].noMoreInput_ /\ op[e].finished_

\* C10: once a drain has read the probed flags no step sets a probed flag.
ProbedFlagsBeforeDrain == [][drainStarted => probed' = probed]_vars

\* C10 witness: every driver has had input, probed flags are set and the
\* drain has started.
DrainSeesProbedFlags ==
  /\ drainStarted
  /\ probed # {}
  /\ \A d \in drivers : lastInput[d] # NoBatch


\* addInput as it runs when the join is not replaced by the dynamic filter.
unreplacedInput(o, batch) ==
  addInputOp([o EXCEPT !.canReplaceWithDynamicFilter_ = FALSE,
                       !.replacedWithDynamicFilter_ = FALSE], batch)

\* The operator after a getOutput whose loop ended with r.
afterPass(o, r) ==
  [o EXCEPT !.input_ = IF r.release THEN NoBatch ELSE @,
            !.results_.lastRowIndex = r.lastRowIndex,
            !.results_.nextHit = r.nextHit,
            !.noMatchDetector_ = r.nmd,
            !.leftSemiJoinTracker_ = r.lsj]

\* getOutput called until the input is given up: the rows returned, in
\* order, and the probed flags set.
RECURSIVE runUnreplaced(_, _)
stepUnreplaced(o, acc, r) ==
  runUnreplaced(afterPass(o, r),
                [rows |-> acc.rows \o r.ret, flags |-> acc.flags \cup r.flags])

runUnreplaced(o, acc) ==
  IF o.input_ = NoBatch
  THEN acc
  ELSE stepUnreplaced(o, acc, probeLoop(o, ArrayOf(0, FALSE), FALSE))

\* What the join returns and flags for a batch with pushdown disabled.
withoutPushdown(d) ==
  runUnreplaced(unreplacedInput(op[d], lastInput[d]),
                [rows |-> <<>>, flags |-> {}])

\* The rows of a sequence of output rows that carry probe row r.
CarrierCount(rows, r) == Cardinality({ i \in 1..Len(rows) : rows[i].p = r })

\* C11: dynamic-filter equivalence.  Once a batch that was passed through
\* (replacedWithDynamicFilter_) is given up, the operator has returned each
\* probe row as many times as the join without pushdown returns it for the
\* same batch, and every probed flag that join sets is set, so that what
\* the last probe returns after noMoreInput is the same too.
DynamicFilterEquivalence ==
  \A d \in drivers :
    (op[d].replacedWithDynamicFilter_ /\ Released(d)) =>
      /\ Len(emitted[d]) = Len(withoutPushdown(d).rows)
      /\ \A r \in RowsOf(lastInput[d]) :
            CarrierCount(emitted[d], r) = CarrierCount(withoutPushdown(d).rows, r)
      /\ withoutPushdown(d).flags \subseteq probed

\* C12: canReplaceWithDynamicFilter_, and with it
\* replacedWithDynamicFilter_, is set only for an inner, left semi or right
\* semi join with one key, a non-empty build without duplicate keys that is
\* not in hash mode, no build column in the output and no filter.
ReplacementOnlyWhenEligible ==
  \A d \in drivers :
    /\ op[d].replacedWithDynamicFilter_ => op[d].canReplaceWithDynamicFilter_
    /\ op[d].canReplaceWithDynamicFilter_ =>
          /\ keyChannels_ = 1
          /\ ~hasDuplicateKeys(build)
          /\ ~tableResultProjections_
          /\ filter = "none"
          /\ isInnerJoin(joinType) \/ isLeftSemiJoin(joinType) \/
             isRightSemiJoin(joinType)
          /\ hashMode # "kHash"
          /\ numDistinct(build) # 0

\* C12 witness: an input batch has been passed through in place of the
\* join.
ReplacementEngaged ==
  /\ op[1].replacedWithDynamicFilter_
  /\ Released(1)
  /\ emitted[1] # <<>>

\* C13: every call to getOutput returns.  A pass of the loop that ends in
\* `continue` with the cursor, the trackers and the arrays as the pass
\* found them is repeated for ever.
GetOutputTerminates == \A d \in drivers : ~hung[d]

\* Output row a comes no later than output row b: an earlier probe row,
\* or the same probe row and, of two build rows, the earlier of the chain.
InOrder(a, b) ==
  \/ a.p < b.p
  \/ a.p = b.p /\ (a.b = nullptr \/ b.b = nullptr \/ a.b <= b.b)

\* C14: the rows returned since the latest addInput are rows of that
\* batch, by ascending probe row, the pairs of one probe row in chain
\* order.
OutputOrder ==
  \A d \in drivers :
    (lastInput[d] # NoBatch /\ ~overflow[d]) =>
      /\ \A i \in 1..Len(emitted[d]) : emitted[d][i].p \in RowsOf(lastInput[d])
      /\ \A i, j \in 1..Len(emitted[d]) :
            i < j => InOrder(emitted[d][i], emitted[d][j])


\* C16: the check of addInput on an empty build never fails.  Whenever
\* the driver may call addInput (needsInput(), which is false once the
\* operator is finished) the check passes.
EmptyBuildCheckHolds ==
  \A d \in drivers : needsInput(op[d]) => emptyBuildCheck(op[d])

\* C16 witness: addInput has taken a batch over an empty build.
AddInputOverEmptyBuild ==
  /\ numDistinct(build) = 0
  /\ lastInput[1] # NoBatch
  /\ op[1].input_ = lastInput[1]

\* The rows an anti join without filter selects at lines 484-489.
antiSelected(d) ==
  SelectedRows([i \in RowsOf(lastInput[d]) |->
                  /\ op[d].nonNullRows_[i]
                  /\ (~op[d].activeRows_[i] \/ op[d].lookup_.hits[i] = nullptr)],
               Len(lastInput[d]))

\* C20: null-aware anti join without filter over a non-empty build.
\* Nothing is returned for a batch before the getOutput that gives it up,
\* and once it is given up the rows returned are the rows with no null key
\* that are not active or have no hit, each once in ascending order; no
\* row with a null key is among them.
AntiNoFilterOneBatch ==
  \A d \in drivers :
    (/\ isNullAwareAntiJoin(joinType) /\ filter = "none"
     /\ numDistinct(build) # 0 /\ lastInput[d] # NoBatch) =>
      /\ op[d].input_ # NoBatch => emitted[d] = <<>>
      /\ Released(d) =>
           /\ emitted[d] = [i \in 1..Len(antiSelected(d)) |->
                              [p |-> antiSelected(d)[i], b |-> nullptr]]
           /\ \A i \in 1..Len(emitted[d]) :
                 RowAt(lastInput[d], emitted[d][i].p).k # NULL

\* C20 witness: a batch with a null key and two keys not of the build has
\* been given up and two rows were returned for it.
AntiNoFilterBatchDone ==
  /\ isNullAwareAntiJoin(joinType) /\ filter = "none"
  /\ numDistinct(build) # 0
  /\ Released(1)
  /\ Len(lastInput[1]) = 3
  /\ \E r \in RowsOf(lastInput[1]) : RowAt(lastInput[1], r).k = NULL
  /\ Len(emitted[1]) = 2

\* C18: left or full join with a filter.  Once a batch is given up, a row
\* of it has been returned with null build columns if and only if no build
\* row of equal key passes the filter with it, whatever the passes of the
\* loop its pairs were listed in, and every pair that passes has been
\* returned once, with its own probe row and build row.
FilterPadding ==
  \A d \in drivers :
    (/\ isLeftJoin(joinType) \/ isFullJoin(joinType)
     /\ filter # "none" /\ Released(d) /\ ~overflow[d]) =>
      \A r \in RowsOf(lastInput[d]) :
        /\ (\E i \in OutputsOf(d, r) : emitted[d][i].b = nullptr) <=>
              matchesOf(RowAt(lastInput[d], r)) = {}
        /\ \A q \in matchesOf(RowAt(lastInput[d], r)) :
              Count(emitted[d], [p |-> r, b |-> q]) = 1

\* C19: null-aware anti join with a filter that propagates nulls, over a
\* non-empty build.  A row of the batch whose filter input is null is
\* never returned.
AntiNullInputEliminated ==
  \A d \in drivers :
    (/\ isNullAwareAntiJoin(joinType) /\ propagatesNulls(filter)
     /\ numDistinct(build) # 0 /\ lastInput[d] # NoBatch /\ ~overflow[d]) =>
      \A r \in RowsOf(lastInput[d]) :
        RowAt(lastInput[d], r).v = NULL => OutputsOf(d, r) = {}

\* Input has ended: noMoreInput has been delivered to every driver, which
\* happens only to an operator that holds no input.
InputEnded ==
  \A d \in drivers : op[d].noMoreInput_ /\ op[d].input_ = NoBatch

\* C15: once input has ended and getOutput keeps being called, every
\* driver's isFinished() becomes true.
EveryDriverFinishes == InputEnded ~> AllFinished

\* C15 witness: two drivers are finished after the end of input, the last
\* probe after it has returned a build row.
FinishedAfterDrain ==
  /\ drivers = AllDrivers
  /\ InputEnded
  /\ AllFinished
  /\ \E d \in drivers : op[d].lastProbe_ /\ drain[d] # <<>>

\* C17: no getOutput writes a row vector, or a row-mapping buffer, that
\* it has handed out and the consumer still holds.
HeldOutputNotModified == \A d \in drivers : ~buffers[d].clobbered

\* C17 witness: the consumer's hold has made getOutput allocate anew, a
\* vector or buffer it had let go of has been used again, and the consumer
\* holds a batch.
ReallocatedAndReused ==
  /\ buffers[1].reallocated
  /\ buffers[1].reused
  /\ buffers[1].outputShared
  /\ output[1] # NoBatch

\* C21: right, full and right semi joins.  A probed flag is set only on a
\* build row that some probe row of a batch already added matches (equal
\* keys, filter true), and once no driver holds input every build row so
\* matched has its flag set.
ProbedFlagIffMatched ==
  isRightFamily(joinType) =>
    /\ probed \subseteq matched
    /\ (\A d \in drivers : op[d].input_ = NoBatch) => matched \subseteq probed

\* The join types that deselect probe rows with a null key.
deselectsNullKeys(jt) ==
  isInnerJoin(jt) \/ isLeftSemiJoin(jt) \/ isRightJoin(jt) \/
  isRightSemiJoin(jt)

\* The rows of a batch that addInput leaves selected in activeRows_.
activeIn(batch) ==
  SelectedRows(activeRowsOf(batch, nonNullRowsOf(batch)), Len(batch))

\* C22: probe rows with a null key, over a non-empty build.  For inner, left
\* semi, right and right semi joins no row returned for a batch is a row of
\* it with a null key, a probed flag is set only on a build row some probe
\* row matches, and a batch with every row deselected is given up by
\* addInput and yields nothing.  For left, full and null-aware anti joins
\* lookup_.rows holds every row of the batch and the hit of a row with a
\* null key is null.
NullKeyRows ==
  \A d \in drivers :
    (lastInput[d] # NoBatch /\ numDistinct(build) # 0) =>
      IF deselectsNullKeys(joinType)
      THEN
        /\ \A i \in 1..Len(emitted[d]) :
              emitted[d][i].p \in RowsOf(lastInput[d]) =>
                RowAt(lastInput[d], emitted[d][i].p).k # NULL
        /\ probed \subseteq matched
        /\ activeIn(lastInput[d]) = <<>> =>
              op[d].input_ = NoBatch /\ emitted[d] = <<>>
      ELSE
        /\ op[d].lookup_.rows = Iota(Len(lastInput[d]))
        /\ \A r \in RowsOf(lastInput[d]) :
              RowAt(lastInput[d], r).k = NULL =>
                op[d].lookup_.hits[r] = nullptr

\* The operator holds the batch of its latest addInput and that addInput
\* reached the probe of the table.
probedTable(d) ==
  /\ lastInput[d] # NoBatch
  /\ op[d].input_ = lastInput[d]
  /\ ~op[d].replacedWithDynamicFilter_
  /\ numDistinct(build) # 0

\* C23: after an addInput that reaches the probe of the table, hits has an
\* entry for every row of the batch for left, full and null-aware anti
\* joins, null for the rows that were not probed; for the other joins it
\* ends with the entry of the last row of lookup_.rows.  Every row of
\* lookup_.rows has an entry in hits, and joinProbe has written it.
HitsInBounds ==
  \A d \in drivers :
    probedTable(d) =>
      /\ IF deselectsNullKeys(joinType)
         THEN DOMAIN op[d].lookup_.hits =
                 0..op[d].lookup_.rows[Len(op[d].lookup_.rows)]
         ELSE
           /\ DOMAIN op[d].lookup_.hits = RowsOf(lastInput[d])
           /\ \A r \in RowsOf(lastInput[d]) :
                 ~op[d].activeRows_[r] => op[d].lookup_.hits[r] = nullptr
      /\ \A i \in 1..Len(op[d].lookup_.rows) :
            /\ op[d].lookup_.rows[i] \in DOMAIN op[d].lookup_.hits
            /\ op[d].lookup_.hits[op[d].lookup_.rows[i]] # UninitHit

\* C23 witness: an inner join holds a batch whose first row was deselected
\* and whose second row was probed.
HitsOfSecondRow ==
  /\ isInnerJoin(joinType)
  /\ probedTable(1)
  /\ op[1].lookup_.rows = <<1>>
  /\ op[1].lookup_.hits[1] # nullptr

\* C24: evalFilter never writes an entry of outputRows_ or of the row
\* mapping past the capacity chosen for the getOutput call.
WritesWithinCapacity == \A d \in drivers : ~overflow[d]

\* C25: evalFilter of a left or full join never writes an entry of
\* outputRows_ and the row mapping at or past the entry it is about to
\* copy: the pair of a row that passes is copied from the entry
\* listJoinResults wrote.
CompactionReadsBeforeWrite == \A d \in drivers : ~ahead[d]

\* C26: whenever a driver holds no input batch, its input having been
\* released by getOutput, neither noMatchDetector_ nor
\* leftSemiJoinTracker_ holds a probe row.
NoPendingRowAtRelease ==
  \A d \in drivers :
    op[d].input_ = NoBatch =>
      /\ op[d].noMatchDetector_.currentRow = NoRow
      /\ op[d].leftSemiJoinTracker_.currentRow = NoRow

\* The part of C26 about noMatchDetector_ alone.
NoPendingMissAtRelease ==
  \A d \in drivers :
    op[d].input_ = NoBatch => op[d].noMatchDetector_.currentRow = NoRow

====
